---- MODULE Spec2Model ----
(***************************************************************************)
(* The bracket progression engine of Serotonin Tournament Software         *)
(* (src/app.py): double-elimination quad brackets with winner/loser        *)
(* routing, and the Swiss stage controller with history snapshots.         *)
(*                                                                         *)
(* Python lists are modelled as sequences; a Python index i (0-based,      *)
(* negative values counting from the end) addresses element i+1 of the     *)
(* sequence.  An entrant is identified by its seed (the roster gives every *)
(* entrant a unique seed and a unique trackmania_id); TBD is the           *)
(* placeholder entrant and BYE the padding entrant.                        *)
(***************************************************************************)
EXTENDS Integers, Sequences, FiniteSets, TLC

VARIABLES
    players,       \* db['main_tournament']['players'] (sequence of seeds)
    bracket,       \* db['main_tournament']['bracket']
    bracket_type,  \* db['main_tournament']['bracket_type']
    is_started,    \* db['main_tournament']['is_started']
    config,        \* db['main_tournament']['config']
    aliased,       \* db['main_tournament'] is the default_main_config object
    resp,          \* HTTP status of the last request (0 before any request)
    lastReq,       \* the last request (endpoint and arguments)
    repeated,      \* the last request equals the request before it
    prevOp,        \* endpoint of the request before the last one
    prevBracket,   \* history variable: the bracket just before the last request
    snapAt,        \* history variable: round k |-> live matches when the
                   \* advance out of round k was last called
    nreq,          \* number of requests with a body served so far (start,
                   \* update_match, config, reset); advance and go_back carry
                   \* no input and are not counted
    pending,       \* the update_match request a server thread is executing
                   \* step by step, with its position in the handler
    seen,          \* the bracket the last get_status read
    seenAt         \* the value of pending when get_status read it

vars == <<players, bracket, bracket_type, is_started, config, aliased,
          resp, lastReq, repeated, prevOp, prevBracket, snapAt, nreq,
          pending, seen, seenAt>>

-----------------------------------------------------------------------------
(* Bounds of the model *)

\* largest roster handed to a double-elimination start
MaxPlayers == 9
\* number of counted requests in a double-elimination run
MaxReqDE == 3
\* number of counted requests in a Swiss run
MaxReqSwiss == 2
\* number of score reports in a Swiss scoring run
MaxScores == 2
\* number of counted requests in a mixed run
MaxReqAll == 3
\* number of counted requests in a run with concurrent reads
MaxReqRead == 2
MaxReqPlay == 4

-----------------------------------------------------------------------------
(* Program constants *)

TBD == 0
BYE == -1
SwissSize == 16
DefaultPointsToAdvance == 70
DefaultPointsForFinals == 100

NoBracket == [kind |-> "none"]
NoReq == [op |-> "none"]
NoPending == [op |-> "none"]

-----------------------------------------------------------------------------
(* Generic list helpers *)

Range(s) == {s[i] : i \in DOMAIN s}

\* the list s, built once (a sequence given by a rule is otherwise
\* recomputed at every access)
List(s) == SubSeq(s, 1, Len(s))

Max(a, b) == IF a >= b THEN a ELSE b

\* math.ceil(n / d) for n >= 0, d > 0
Ceil(n, d) == (n + d - 1) \div d

\* s[a:b] of Python for 0 <= a, b
Slice(s, a, b) ==
    LET hi == IF b < Len(s) THEN b ELSE Len(s)
    IN  IF a >= hi THEN <<>> ELSE SubSeq(s, a + 1, hi)

\* [x for x in s if keep(x)]
Filter(s, keep(_)) == SelectSeq(s, keep)

RECURSIVE Concat(_)
Concat(ss) == IF ss = <<>> THEN <<>> ELSE Head(ss) \o Concat(Tail(ss))

\* A Python index i is valid on a list of length n iff -n <= i < n
PyValid(i, n) == i >= -n /\ i < n
\* position (1-based) addressed by the valid Python index i
PyPos(i, n) == IF i < 0 THEN i + n + 1 ELSE i + 1

-----------------------------------------------------------------------------
(* Bracket Generator: double elimination *)

\* sorted(players, key=seed): the seed of an entrant is its number
SortBySeed(ps) ==
    LET rank == List([i \in 1..Len(ps) |->
                         Cardinality({j \in 1..Len(ps) : ps[j] < ps[i]})])
    IN  List([k \in 1..Len(ps) |->
                 ps[CHOOSE i \in 1..Len(ps) : rank[i] = k - 1]])

\* the grouping with the second and fourth picks not mirrored (positions
\* i, m+i, 2m+i, 3m+i): a straight deal instead of a serpentine one
create_straight_matches(ps) ==
    LET n == Len(ps)
        m == Ceil(n, 4)
        padded == ps \o [k \in 1..(m * 4 - n) |-> BYE]
        NotBye(p) == p # BYE
        group(i) == <<padded[i + 1], padded[m + i + 1],
                      padded[m * 2 + i + 1], padded[m * 3 + i + 1]>>
    IN  IF n = 0 THEN <<>>
        ELSE [j \in 1..m |-> Filter(group(j - 1), NotBye)]

\* create_serpentine_matches: lists of entrants, BYE dropped
create_serpentine_matches(ps) ==
    LET n == Len(ps)
        m == Ceil(n, 4)
        padded == ps \o [k \in 1..(m * 4 - n) |-> BYE]
        NotBye(p) == p # BYE
        group(i) == <<padded[i + 1], padded[m * 2 - 1 - i + 1],
                      padded[m * 2 + i + 1], padded[m * 4 - 1 - i + 1]>>
    IN  IF n = 0 THEN <<>>
        ELSE [j \in 1..m |-> Filter(group(j - 1), NotBye)]

NewSlot(p) == [id |-> p, score |-> 0]
NewMatch(group) ==
    [players |-> [i \in 1..Len(group) |-> NewSlot(group[i])],
     winners |-> <<>>, is_complete |-> FALSE]
TBDMatch == NewMatch(<<TBD, TBD, TBD, TBD>>)

\* the while loop of generate_double_elim_bracket: the upper rounds
RECURSIVE UpperRounds(_)
UpperRounds(current_players) ==
    IF Len(current_players) > 2
    THEN LET groups == create_serpentine_matches(current_players)
             matches == [i \in 1..Len(groups) |-> NewMatch(groups[i])]
             num_winners == Len(matches) * 2
         IN  IF num_winners <= 2 THEN <<matches>>
             ELSE <<matches>> \o UpperRounds([k \in 1..num_winners |-> TBD])
    ELSE <<>>

\* the for loop of generate_double_elim_bracket: the lower rounds
LowerRounds(upper) ==
    LET num_ub_rounds == Len(upper)
        num_matches(i) == IF i < num_ub_rounds THEN Len(upper[i + 1]) ELSE 1
        lb(i) == [j \in 1..Ceil(num_matches(i), 2) |-> TBDMatch]
        NonEmpty(r) == r # <<>>
    IN  Filter([k \in 1..(num_ub_rounds + 1) |-> lb(k - 1)], NonEmpty)

generate_double_elim_bracket(ps) ==
    IF ps = <<>> THEN NoBracket
    ELSE LET upper == UpperRounds(SortBySeed(ps))
         IN  [kind |-> "de", upper |-> upper, lower |-> LowerRounds(upper),
              grand_final |-> <<TBDMatch>>]

-----------------------------------------------------------------------------
(* Bracket Generator: Swiss *)

NewSwissSlot(p) == [seed |-> p, score |-> 0, is_winner |-> FALSE]

\* the generator without its size check
generate_swiss_bracket_any_size(ps) ==
    LET sorted_players == SortBySeed(ps)
        quad(lo) == LET In(p) == p \in lo..(lo + 3)
                    IN  Filter(sorted_players, In)
        m(id, lo) == [id |-> id,
                      players |-> [i \in 1..Len(quad(lo)) |->
                                       NewSwissSlot(quad(lo)[i])]]
    IN  [kind |-> "swiss", stage |-> "seeding", round |-> 1,
         matches |-> <<m("SWISS-R1-M1", 1), m("SWISS-R1-M2", 5),
                       m("SWISS-R1-M3", 9), m("SWISS-R1-M4", 13)>>,
         history |-> <<>>]

generate_swiss_bracket(ps) ==
    IF Len(ps) # SwissSize THEN NoBracket
    ELSE LET sorted_players == SortBySeed(ps)
             quad(lo) == LET In(p) == p \in lo..(lo + 3)
                         IN  Filter(sorted_players, In)
             m(id, lo) == [id |-> id,
                           players |-> [i \in 1..Len(quad(lo)) |->
                                            NewSwissSlot(quad(lo)[i])]]
         IN  [kind |-> "swiss", stage |-> "seeding", round |-> 1,
              matches |-> <<m("SWISS-R1-M1", 1), m("SWISS-R1-M2", 5),
                            m("SWISS-R1-M3", 9), m("SWISS-R1-M4", 13)>>,
              history |-> <<>>]

-----------------------------------------------------------------------------
(* Reported scores.  A request carries a list of JSON values; int() accepts *)
(* a number, raises ValueError on a non-numeric string and TypeError on    *)
(* null.                                                                   *)

Num(n) == [kind |-> "int", val |-> n]
Text == [kind |-> "str", val |-> 0]
Null == [kind |-> "null", val |-> 0]

-----------------------------------------------------------------------------
(* Access to the matches of a double-elimination bracket *)

Sides == {"upper", "lower", "grand_final"}

\* bracket[side]["rounds"] as a list of rounds, each a list of matches; the
\* grand final is bracket["grand_final"]["matches"], one list of matches
RoundsOf(b, side) ==
    CASE side = "upper" -> b.upper
      [] side = "lower" -> b.lower
      [] OTHER -> <<b.grand_final>>

\* the match at 1-based positions (rp, mp)
MatchAt(b, side, rp, mp) == RoundsOf(b, side)[rp][mp]

SetMatch(b, side, rp, mp, match) ==
    CASE side = "upper" -> [b EXCEPT !.upper[rp][mp] = match]
      [] side = "lower" -> [b EXCEPT !.lower[rp][mp] = match]
      [] OTHER -> [b EXCEPT !.grand_final[mp] = match]

-----------------------------------------------------------------------------
(* Advancement Router *)

NoDest == [side |-> "none", round |-> 0, match |-> 0, slot |-> 0]

\* advance_players, upper branch: where the winners of upper (r, m) go
UpperWinnerDest(b, round_index, match_index) ==
    LET next_ub_round_index == round_index + 1
    IN  IF next_ub_round_index >= Len(b.upper)
        THEN [side |-> "grand_final", round |-> 0, match |-> 0, slot |-> 0]
        ELSE [side |-> "upper", round |-> next_ub_round_index,
              match |-> match_index \div 2, slot |-> (match_index % 2) * 2]

\* advance_players, upper branch: where the losers of upper (r, m) go
UpperLoserDest(b, round_index, match_index) ==
    LET lb_round_index == IF round_index = 0 THEN 0
                          ELSE (round_index - 1) * 2 + 1
    IN  IF lb_round_index < Len(b.lower)
        THEN [side |-> "lower", round |-> lb_round_index,
              match |-> match_index \div 2, slot |-> (match_index % 2) * 2]
        ELSE NoDest

\* is lower round index r a usable Python index of the lower rounds
LowerRoundValid(b, r) == PyValid(r, Len(b.lower))

\* the lower branch with the last lower round's winners sent to the
\* grand-final slots of the upper winners
LowerWinnerDestFirstSlots(b, round_index, match_index) ==
    LET next_lb_round_index == round_index + 1
        next_match_index == match_index \div 2
    IN  IF next_lb_round_index >= Len(b.lower)
        THEN [side |-> "grand_final", round |-> 0, match |-> 0, slot |-> 0]
        ELSE [side |-> "lower", round |-> next_lb_round_index,
              match |-> next_match_index, slot |-> (match_index % 2) * 2]

\* advance_players, lower branch: where the winners of lower (r, m) go
LowerWinnerDest(b, round_index, match_index) ==
    LET next_lb_round_index == round_index + 1
        next_match_index == match_index \div 2
    IN  IF next_lb_round_index >= Len(b.lower)
        THEN [side |-> "grand_final", round |-> 0, match |-> 0, slot |-> 2]
        ELSE IF ~LowerRoundValid(b, next_lb_round_index)
                \/ next_match_index <
                     Len(b.lower[PyPos(next_lb_round_index, Len(b.lower))])
             THEN [side |-> "lower", round |-> next_lb_round_index,
                   match |-> next_match_index, slot |-> (match_index % 2) * 2]
             ELSE NoDest

\* does destination d name a match of b (its round and match index are valid)
DestMatchExists(b, d) ==
    /\ d.side \in Sides
    /\ PyValid(d.round, Len(RoundsOf(b, d.side)))
    /\ PyValid(d.match,
               Len(RoundsOf(b, d.side)[PyPos(d.round, Len(RoundsOf(b, d.side)))]))

DestRoundPos(b, d) == PyPos(d.round, Len(RoundsOf(b, d.side)))
DestMatchPos(b, d) ==
    PyPos(d.match, Len(RoundsOf(b, d.side)[DestRoundPos(b, d)]))

\* next_match["players"][slot] = vals[k]: IndexError when vals has no entry k
\* or the match has no such slot; st = [b, ok] is the bracket so far
WriteSlot(st, d, offset, vals) ==
    IF ~st.ok THEN st
    ELSE LET rp == DestRoundPos(st.b, d)
             mp == DestMatchPos(st.b, d)
             match == MatchAt(st.b, d.side, rp, mp)
             slot == d.slot + offset
         IN  IF Len(vals) < offset + 1 \/ slot >= Len(match.players)
             THEN [b |-> st.b, ok |-> FALSE]
             ELSE [b |-> SetMatch(st.b, d.side, rp, mp,
                        [match EXCEPT !.players[slot + 1] =
                                          NewSlot(vals[offset + 1])]),
                   ok |-> TRUE]

\* the two assignments advance_players makes for one destination
WritePair(st, d, vals) ==
    IF ~st.ok \/ d.side = "none" THEN st
    ELSE IF ~DestMatchExists(st.b, d) THEN [b |-> st.b, ok |-> FALSE]
    ELSE WriteSlot(WriteSlot(st, d, 0, vals), d, 1, vals)

\* advance_players(winners, losers, bracket_type, round_index, match_index):
\* [b |-> the bracket after the writes made, ok |-> no IndexError was raised]
advance_players(b, winners, losers, side, round_index, match_index) ==
    LET st0 == [b |-> b, ok |-> TRUE]
    IN  CASE side = "upper" ->
               WritePair(WritePair(st0,
                             UpperWinnerDest(b, round_index, match_index),
                             winners),
                         UpperLoserDest(b, round_index, match_index), losers)
          [] side = "lower" ->
               WritePair(st0, LowerWinnerDest(b, round_index, match_index),
                         winners)
          [] OTHER -> st0

-----------------------------------------------------------------------------
(* Match Resolver, quad format: update_match for upper, lower, grand_final *)

\* position of the first score that int() rejects among those the loop
\* reaches (0 when there is none); the loop writes slot i while i < len(scores)
FirstBad(match, scores) ==
    LET n == IF Len(scores) < Len(match.players) THEN Len(scores)
             ELSE Len(match.players)
        bad == {i \in 1..n : scores[i].kind # "int"}
    IN  IF bad = {} THEN 0
        ELSE CHOOSE i \in bad : \A j \in bad : i <= j

\* player["score"] = int(scores[i]) for the slots before position stop
\* (stop = 0: every slot that has a score)
SetScores(match, scores, stop) ==
    [match EXCEPT !.players =
        List([i \in 1..Len(match.players) |->
                 IF i <= Len(scores) /\ (stop = 0 \/ i < stop)
                 THEN [match.players[i] EXCEPT !.score = scores[i].val]
                 ELSE match.players[i]])]

\* list.sort(key=score, reverse=True): stable, equal scores keep their order
SortByScoreDesc(ps) ==
    LET before(i, j) == \/ ps[i].score > ps[j].score
                        \/ ps[i].score = ps[j].score /\ i < j
        rank == List([i \in 1..Len(ps) |->
                         Cardinality({j \in 1..Len(ps) : before(j, i)})])
    IN  List([k \in 1..Len(ps) |->
                 ps[CHOOSE i \in 1..Len(ps) : rank[i] = k - 1]])

IsReal(p) == p.id # TBD /\ p.id # BYE

\* the qualification with the threshold excluded (score > points_needed)
QualifiedAbove(match, points_needed) ==
    LET Exceeds(p) == p.score > points_needed
    IN  Filter(SortByScoreDesc(Filter(match.players, IsReal)), Exceeds)

\* qualified_players: the real entrants of the match, best score first, that
\* reach points_needed
Qualified(match, points_needed) ==
    LET Reaches(p) == p.score >= points_needed
    IN  Filter(SortByScoreDesc(Filter(match.players, IsReal)), Reaches)

\* losers: the entrants of the match, in slot order, that are no winners and
\* no placeholders
Losers(match, winner_ids) ==
    LET IsLoser(p) == p.id \notin winner_ids /\ IsReal(p)
        ls == Filter(match.players, IsLoser)
    IN  [i \in 1..Len(ls) |-> ls[i].id]

PointsNeeded(cfg, side) ==
    IF side = "grand_final" THEN cfg.points_for_finals
    ELSE cfg.points_to_advance

\* Does the request name a match: bracket[side]["rounds"][r]["matches"][m]
\* raises TypeError on no bracket, KeyError on a bracket without that side,
\* IndexError on a bad index.  round_index is not read for the grand final.
QuadLookupOk(b, side, round_index, match_index) ==
    /\ b.kind = "de"
    /\ side \in Sides
    /\ IF side = "grand_final"
       THEN PyValid(match_index, Len(b.grand_final))
       ELSE /\ PyValid(round_index, Len(RoundsOf(b, side)))
            /\ PyValid(match_index,
                       Len(RoundsOf(b, side)[PyPos(round_index,
                                                   Len(RoundsOf(b, side)))]))

QuadRoundPos(b, side, round_index) ==
    IF side = "grand_final" THEN 1
    ELSE PyPos(round_index, Len(RoundsOf(b, side)))
QuadMatchPos(b, side, round_index, match_index) ==
    PyPos(match_index,
          Len(RoundsOf(b, side)[QuadRoundPos(b, side, round_index)]))

\* update_match that retracts the routing when a correction leaves fewer
\* than two qualifiers: the destination slots go back to placeholders
update_match_quad_retracting(b, cfg, side, round_index, match_index, scores) ==
    IF ~QuadLookupOk(b, side, round_index, match_index)
    THEN [b |-> b, status |-> 400]
    ELSE
    LET rp == QuadRoundPos(b, side, round_index)
        mp == QuadMatchPos(b, side, round_index, match_index)
        match == MatchAt(b, side, rp, mp)
        stop == FirstBad(match, scores)
        scored == SetScores(match, scores, stop)
        qualified_players == Qualified(scored, PointsNeeded(cfg, side))
        winners == <<qualified_players[1].id, qualified_players[2].id>>
        done == [scored EXCEPT !.winners = winners, !.is_complete = TRUE]
        undone == [scored EXCEPT !.winners = <<>>, !.is_complete = FALSE]
        routed == advance_players(SetMatch(b, side, rp, mp, done), winners,
                                  Losers(done, {winners[1], winners[2]}),
                                  side, round_index, match_index)
        retracted == advance_players(SetMatch(b, side, rp, mp, undone),
                                     <<TBD, TBD>>, <<TBD, TBD>>,
                                     side, round_index, match_index)
    IN  IF stop # 0
        THEN [b |-> SetMatch(b, side, rp, mp, scored),
              status |-> IF scores[stop].kind = "null" THEN 400 ELSE 500]
        ELSE IF Len(qualified_players) >= 2
        THEN IF side = "grand_final"
             THEN [b |-> SetMatch(b, side, rp, mp, done), status |-> 200]
             ELSE [b |-> routed.b,
                   status |-> IF routed.ok THEN 200 ELSE 400]
        ELSE IF side = "grand_final"
        THEN [b |-> SetMatch(b, side, rp, mp, undone), status |-> 200]
        ELSE [b |-> retracted.b, status |-> 200]

\* update_match, quad branch: [b |-> bracket after the call, status |-> HTTP
\* status].  400 is the handler's own error response (IndexError, TypeError,
\* KeyError are caught); 500 is an exception the handler does not catch
\* (ValueError from int()).
update_match_quad(b, cfg, side, round_index, match_index, scores) ==
    IF ~QuadLookupOk(b, side, round_index, match_index)
    THEN [b |-> b, status |-> 400]
    ELSE
    LET rp == QuadRoundPos(b, side, round_index)
        mp == QuadMatchPos(b, side, round_index, match_index)
        match == MatchAt(b, side, rp, mp)
        stop == FirstBad(match, scores)
        scored == SetScores(match, scores, stop)
        qualified_players == Qualified(scored, PointsNeeded(cfg, side))
        winners == <<qualified_players[1].id, qualified_players[2].id>>
        done == [scored EXCEPT !.winners = winners, !.is_complete = TRUE]
        undone == [scored EXCEPT !.winners = <<>>, !.is_complete = FALSE]
        routed == advance_players(SetMatch(b, side, rp, mp, done), winners,
                                  Losers(done, {winners[1], winners[2]}),
                                  side, round_index, match_index)
    IN  IF stop # 0
        THEN [b |-> SetMatch(b, side, rp, mp, scored),
              status |-> IF scores[stop].kind = "null" THEN 400 ELSE 500]
        ELSE IF Len(qualified_players) >= 2
        THEN IF side = "grand_final"
             THEN [b |-> SetMatch(b, side, rp, mp, done), status |-> 200]
             ELSE [b |-> routed.b,
                   status |-> IF routed.ok THEN 200 ELSE 400]
        ELSE [b |-> SetMatch(b, side, rp, mp, undone), status |-> 200]

-----------------------------------------------------------------------------
(* Match Resolver, Swiss format, and the Swiss Stage Controller *)

\* the sort with key (score, seed) reversed as a whole: equal scores put the
\* higher seed number first
SortSwissSeedDesc(ps) ==
    LET before(p, q) == \/ p.score > q.score
                        \/ p.score = q.score /\ p.seed > q.seed
        rank == List([i \in 1..Len(ps) |->
                         Cardinality({j \in 1..Len(ps) : before(ps[j], ps[i])})])
    IN  List([k \in 1..Len(ps) |->
                 ps[CHOOSE i \in 1..Len(ps) : rank[i] = k - 1]])

\* list.sort(key=(score, -seed), reverse=True): score descending, then seed
\* ascending; seeds are unique, so the order is total
SortSwiss(ps) ==
    LET before(p, q) == \/ p.score > q.score
                        \/ p.score = q.score /\ p.seed < q.seed
        rank == List([i \in 1..Len(ps) |->
                         Cardinality({j \in 1..Len(ps) : before(ps[j], ps[i])})])
    IN  List([k \in 1..Len(ps) |->
                 ps[CHOOSE i \in 1..Len(ps) : rank[i] = k - 1]])

\* sorted(players, key=score, reverse=True): stable
SortedByScore(ps) ==
    LET before(i, j) == \/ ps[i].score > ps[j].score
                        \/ ps[i].score = ps[j].score /\ i < j
        rank == List([i \in 1..Len(ps) |->
                         Cardinality({j \in 1..Len(ps) : before(j, i)})])
    IN  List([k \in 1..Len(ps) |->
                 ps[CHOOSE i \in 1..Len(ps) : rank[i] = k - 1]])

\* player['is_winner'] = (i < 2) for every slot
MarkTopTwo(ps) ==
    List([i \in 1..Len(ps) |-> [ps[i] EXCEPT !.is_winner = (i <= 2)]])

\* the sort-and-mark loop body shared by update_match and advance_swiss_stage
Finalize(match) == [match EXCEPT !.players = MarkTopTwo(SortSwiss(@))]

FinalizeAll(ms) == List([i \in 1..Len(ms) |-> Finalize(ms[i])])

\* player['score'] = 0 for every slot of every match
ResetScores(ms) ==
    List([i \in 1..Len(ms) |->
             [ms[i] EXCEPT !.players =
                 List([j \in 1..Len(@) |-> [@[j] EXCEPT !.score = 0]])]])

\* player['score'] = scores[i] for i < len(scores)
SetSwissScores(match, scores) ==
    [match EXCEPT !.players =
        List([i \in 1..Len(@) |->
                 IF i <= Len(scores) THEN [@[i] EXCEPT !.score = scores[i].val]
                 ELSE @[i]])]

\* update_match, swiss branch.  bracket['matches'] raises TypeError on no
\* bracket and KeyError on a double-elimination bracket, neither caught (500);
\* an unknown match_id changes nothing and answers 200.
update_match_swiss(b, match_id, scores) ==
    IF b.kind # "swiss" THEN [b |-> b, status |-> 500]
    ELSE LET hit == {i \in 1..Len(b.matches) : b.matches[i].id = match_id}
             i == CHOOSE k \in hit : \A j \in hit : k <= j
         IN  IF hit = {} THEN [b |-> b, status |-> 200]
             ELSE [b |-> [b EXCEPT !.matches[i] =
                             Finalize(SetSwissScores(@, scores))],
                   status |-> 200]

\* what the stored entry would hold if the live list were stored by reference
\* instead of copied: the finalization and the score reset of the same
\* advance call would show through it
AliasSnapshot(ms) == ResetScores(FinalizeAll(ms))

\* copy.deepcopy(bracket['matches']): a copy shares nothing with the live
\* matches, so later writes to the live matches do not reach it
Snapshot(ms) == ms

SwissMatch(id, ps) == [id |-> id, players |-> ps]

\* groups[id]['players']
Group(ms, id) == (CHOOSE i \in 1..Len(ms) : ms[i].id = id) 

GroupPlayers(ms, id) == ms[Group(ms, id)].players

\* all_players: each match's slots, best score first, in match order
AllPlayers(ms) ==
    Concat(List([i \in 1..Len(ms) |-> SortedByScore(ms[i].players)]))

\* round 1 -> 2
AdvanceRound1(ms) ==
    LET all_players == AllPlayers(FinalizeAll(ms))
        top_8 == Slice(all_players, 0, 8)
        bottom_8 == Slice(all_players, 8, Len(all_players))
    IN  <<SwissMatch("SWISS-R2-M1", Slice(top_8, 0, 4)),
          SwissMatch("SWISS-R2-M2", Slice(top_8, 4, Len(top_8))),
          SwissMatch("SWISS-R2-M3", Slice(bottom_8, 0, 4)),
          SwissMatch("SWISS-R2-M4", Slice(bottom_8, 4, Len(bottom_8)))>>

\* round 2 -> 3 without the re-ordering of the sixteen across matches
AdvanceRound2InMatchOrder(ms) ==
    LET final_seeding == AllPlayers(FinalizeAll(ms))
    IN  <<SwissMatch("champion", Slice(final_seeding, 0, 4)),
          SwissMatch("gold", Slice(final_seeding, 4, 8)),
          SwissMatch("silver", Slice(final_seeding, 8, 12)),
          SwissMatch("bronze", Slice(final_seeding, 12, 16))>>

\* round 2 -> 3
AdvanceRound2(ms) ==
    LET final_seeding == SortSwiss(AllPlayers(FinalizeAll(ms)))
    IN  <<SwissMatch("champion", Slice(final_seeding, 0, 4)),
          SwissMatch("gold", Slice(final_seeding, 4, 8)),
          SwissMatch("silver", Slice(final_seeding, 8, 12)),
          SwissMatch("bronze", Slice(final_seeding, 12, 16))>>

\* sorted(players, key=seed)
SortSlotsBySeed(ps) ==
    LET rank == List([i \in 1..Len(ps) |->
                         Cardinality({j \in 1..Len(ps) : ps[j].seed < ps[i].seed})])
    IN  List([k \in 1..Len(ps) |->
                 ps[CHOOSE i \in 1..Len(ps) : rank[i] = k - 1]])

\* promotion and relegation with the new gold group always in score order
AdvanceGroupsScoreOrder(ms, round) ==
    LET fin == FinalizeAll(ms)
        champion == GroupPlayers(fin, "champion")
        gold == GroupPlayers(fin, "gold")
        silver == GroupPlayers(fin, "silver")
        bronze == GroupPlayers(fin, "bronze")
    IN  <<SwissMatch("champion", Slice(champion, 0, 2) \o Slice(gold, 0, 2)),
          SwissMatch("gold",
                     Slice(champion, 2, Len(champion)) \o Slice(silver, 0, 2)),
          SwissMatch("silver",
                     Slice(silver, 2, Len(silver)) \o Slice(bronze, 0, 2)),
          SwissMatch("bronze", Slice(bronze, 2, Len(bronze)))>>

\* round 3 -> 4 and round 4 -> 5: promotion and relegation between groups
AdvanceGroups(ms, round) ==
    LET fin == FinalizeAll(ms)
        champion == GroupPlayers(fin, "champion")
        gold == GroupPlayers(fin, "gold")
        silver == GroupPlayers(fin, "silver")
        bronze == GroupPlayers(fin, "bronze")
        new_gold ==
            IF round = 3
            THEN SortSlotsBySeed(Slice(champion, 2, Len(champion)))
                     \o SortSlotsBySeed(Slice(silver, 0, 2))
            ELSE Slice(champion, 2, Len(champion)) \o Slice(silver, 0, 2)
        new_champion == Slice(champion, 0, 2) \o Slice(gold, 0, 2)
        new_silver == Slice(silver, 2, Len(silver)) \o Slice(bronze, 0, 2)
        new_bronze == Slice(bronze, 2, Len(bronze))
    IN  <<SwissMatch("champion", new_champion), SwissMatch("gold", new_gold),
          SwissMatch("silver", new_silver), SwissMatch("bronze", new_bronze)>>

\* the round written by each branch of advance_swiss_stage
NextRound(round) ==
    CASE round = 1 -> 2
      [] round = 2 -> 3
      [] round \in {3, 4} -> round + 1
      [] OTHER -> round

NextStage(stage, round) == IF round = 2 THEN "groups" ELSE stage

NextMatches(ms, round) ==
    CASE round = 1 -> AdvanceRound1(ms)
      [] round = 2 -> AdvanceRound2(ms)
      [] round \in {3, 4} -> AdvanceGroups(ms, round)
      [] OTHER -> ms

\* advance_swiss_stage without the snapshot of the round it leaves
advance_swiss_stage_no_snapshot(b, btype) ==
    IF b.kind = "none" \/ btype # "swiss" THEN [b |-> b, status |-> 400]
    ELSE IF b.kind # "swiss" THEN [b |-> b, status |-> 500]
    ELSE [b |-> [b EXCEPT
                  !.stage = NextStage(@, b.round),
                  !.matches = ResetScores(NextMatches(@, b.round)),
                  !.round = NextRound(@)],
          status |-> 200]

\* advance_swiss_stage: 400 is the handler's error response; a bracket that
\* is not Swiss while bracket_type says swiss raises KeyError (500)
advance_swiss_stage(b, btype) ==
    IF b.kind = "none" \/ btype # "swiss" THEN [b |-> b, status |-> 400]
    ELSE IF b.kind # "swiss" THEN [b |-> b, status |-> 500]
    ELSE [b |-> [b EXCEPT
                  !.history = (b.round :> Snapshot(b.matches)) @@ @,
                  !.stage = NextStage(@, b.round),
                  !.matches = ResetScores(NextMatches(@, b.round)),
                  !.round = NextRound(@)],
          status |-> 200]

\* h without key k
DropKey(h, k) == [j \in (DOMAIN h) \ {k} |-> h[j]]

\* go_back_swiss that keeps the snapshot it restored
go_back_swiss_keep_snapshot(b, btype) ==
    IF b.kind = "none" \/ btype # "swiss" THEN [b |-> b, status |-> 400]
    ELSE IF b.kind # "swiss" THEN [b |-> b, status |-> 500]
    ELSE IF b.round <= 1 \/ (b.round - 1) \notin DOMAIN b.history
    THEN [b |-> b, status |-> 400]
    ELSE [b |-> [b EXCEPT
                  !.matches = ResetScores(Snapshot(b.history[b.round - 1])),
                  !.round = @ - 1],
          status |-> 200]

\* go_back_swiss with the two precondition failures answered as a success
\* that does nothing
go_back_swiss_silent(b, btype) ==
    IF b.kind = "none" \/ btype # "swiss" THEN [b |-> b, status |-> 400]
    ELSE IF b.kind # "swiss" THEN [b |-> b, status |-> 500]
    ELSE IF b.round <= 1 \/ (b.round - 1) \notin DOMAIN b.history
    THEN [b |-> b, status |-> 200]
    ELSE [b |-> [b EXCEPT
                  !.matches = ResetScores(Snapshot(b.history[b.round - 1])),
                  !.round = @ - 1,
                  !.history = DropKey(@, b.round - 1)],
          status |-> 200]

\* go_back_swiss
go_back_swiss(b, btype) ==
    IF b.kind = "none" \/ btype # "swiss" THEN [b |-> b, status |-> 400]
    ELSE IF b.kind # "swiss" THEN [b |-> b, status |-> 500]
    ELSE IF b.round <= 1 THEN [b |-> b, status |-> 400]
    ELSE IF (b.round - 1) \notin DOMAIN b.history
    THEN [b |-> b, status |-> 400]
    ELSE [b |-> [b EXCEPT
                  !.matches = ResetScores(Snapshot(b.history[b.round - 1])),
                  !.round = @ - 1,
                  !.history = DropKey(@, b.round - 1)],
          status |-> 200]

-----------------------------------------------------------------------------
(* State after construction.  load_config returns the default_main_config  *)
(* object itself when there is no readable config file; the three lines    *)
(* after it clear is_started, bracket and players.                         *)

DefaultConfig == [points_to_advance |-> DefaultPointsToAdvance,
                  points_for_finals |-> DefaultPointsForFinals]

\* a config file left by an earlier session holds other thresholds
LoadedConfig == [points_to_advance |-> 50, points_for_finals |-> 60]

Formats == {"double_elimination", "swiss"}

InitRest ==
    /\ players = <<>>
    /\ bracket = NoBracket
    /\ is_started = FALSE
    /\ resp = 0
    /\ lastReq = NoReq
    /\ repeated = FALSE
    /\ prevOp = "none"
    /\ prevBracket = NoBracket
    /\ snapAt = <<>>
    /\ nreq = 0
    /\ pending = NoPending
    /\ seen = NoBracket
    /\ seenAt = NoPending

\* no config file: the default object is the live state
InitFresh ==
    /\ aliased = TRUE
    /\ config = DefaultConfig
    /\ bracket_type = "double_elimination"
    /\ InitRest

\* a config file was read: its config and bracket_type are the live ones
InitLoaded ==
    /\ aliased = FALSE
    /\ config \in {DefaultConfig, LoadedConfig}
    /\ bracket_type \in Formats
    /\ InitRest

Init == InitFresh \/ InitLoaded

\* bookkeeping shared by every handler
Served(req, counted) ==
    /\ lastReq' = req
    /\ repeated' = (req = lastReq)
    /\ prevOp' = lastReq.op
    /\ prevBracket' = bracket
    /\ nreq' = IF counted THEN nreq + 1 ELSE nreq
    /\ UNCHANGED <<pending, seen, seenAt>>

-----------------------------------------------------------------------------
(* Requests *)

\* a roster of n uniquely seeded entrants, listed best seed first or last
Roster(n, order) ==
    IF order = "asc" THEN [i \in 1..n |-> i] ELSE [i \in 1..n |-> n + 1 - i]

\* POST /api/start
Start(fmt, n, order) ==
    LET roster == Roster(n, order)
        rejected == fmt = "swiss" /\ Len(roster) # SwissSize
        made == IF fmt = "double_elimination"
                THEN generate_double_elim_bracket(roster)
                ELSE generate_swiss_bracket(roster)
    IN  /\ players' = roster
        /\ bracket_type' = fmt
        /\ bracket' = IF rejected THEN bracket ELSE made
        /\ is_started' = IF rejected THEN is_started ELSE TRUE
        /\ resp' = IF rejected THEN 400 ELSE 200
        /\ snapAt' = IF rejected THEN snapAt ELSE <<>>
        /\ Served([op |-> "start", bracket_type |-> fmt, players |-> roster],
                  TRUE)
        /\ UNCHANGED <<config, aliased>>

\* POST /api/update_match with bracket_type upper, lower or grand_final
UpdateMatchQuad(side, round_index, match_index, scores) ==
    LET out == update_match_quad(bracket, config, side, round_index,
                                 match_index, scores)
    IN  /\ bracket' = out.b
        /\ resp' = out.status
        /\ Served([op |-> "update_match", bracket_type |-> side,
                   round_index |-> round_index, match_index |-> match_index,
                   scores |-> scores], TRUE)
        /\ UNCHANGED <<players, bracket_type, is_started, config, aliased,
                       snapAt>>

\* POST /api/update_match with bracket_type swiss
UpdateMatchSwiss(match_id, scores) ==
    LET out == update_match_swiss(bracket, match_id, scores)
    IN  /\ bracket' = out.b
        /\ resp' = out.status
        /\ Served([op |-> "update_match", bracket_type |-> "swiss",
                   match_id |-> match_id, scores |-> scores], TRUE)
        /\ UNCHANGED <<players, bracket_type, is_started, config, aliased,
                       snapAt>>

\* POST /api/advance_swiss_stage
AdvanceSwiss ==
    LET out == advance_swiss_stage(bracket, bracket_type)
    IN  /\ bracket' = out.b
        /\ resp' = out.status
        /\ snapAt' = IF out.status = 200
                     THEN (bracket.round :> bracket.matches) @@ snapAt
                     ELSE snapAt
        /\ Served([op |-> "advance_swiss_stage"], FALSE)
        /\ UNCHANGED <<players, bracket_type, is_started, config, aliased>>

\* POST /api/go_back_swiss
GoBackSwiss ==
    LET out == go_back_swiss(bracket, bracket_type)
    IN  /\ bracket' = out.b
        /\ resp' = out.status
        /\ snapAt' = IF out.status = 200
                     THEN DropKey(snapAt, bracket.round - 1)
                     ELSE snapAt
        /\ Served([op |-> "go_back_swiss"], FALSE)
        /\ UNCHANGED <<players, bracket_type, is_started, config, aliased>>

\* POST /api/reset: db['main_tournament'] = default_main_config binds the
\* default object itself, so the fields written through an earlier binding
\* of it (config, bracket_type) are kept
Reset ==
    /\ players' = <<>>
    /\ bracket' = NoBracket
    /\ is_started' = FALSE
    /\ config' = IF aliased THEN config ELSE DefaultConfig
    /\ bracket_type' = IF aliased THEN bracket_type ELSE "double_elimination"
    /\ aliased' = TRUE
    /\ resp' = 200
    /\ snapAt' = <<>>
    /\ Served([op |-> "reset"], TRUE)

\* POST /api/config
UpdateConfig(points, final_points) ==
    /\ config' = [points_to_advance |-> points,
                  points_for_finals |-> final_points]
    /\ resp' = 200
    /\ Served([op |-> "config", points_to_advance |-> points,
               points_for_finals |-> final_points], TRUE)
    /\ UNCHANGED <<players, bracket, bracket_type, is_started, aliased,
                   snapAt>>

-----------------------------------------------------------------------------
(* Inputs *)

\* score lists reported to the quad format
QuadScores ==
    {<<Num(70), Num(100), Num(0), Num(0)>>,
     <<Num(100), Num(40), Num(0), Num(0)>>,
     <<Num(70), Num(69), Num(100), Num(0)>>,
     <<Num(100), Num(100), Num(70), Num(100)>>,
     <<Num(100), Text, Num(0), Num(0)>>}

\* the matches of the live bracket, and indexes that name none
QuadTargets ==
    IF bracket.kind # "de" THEN {<<"upper", 0, 0>>}
    ELSE {<<"grand_final", 0, 0>>}
         \cup UNION {{<<"upper", r - 1, m - 1>> :
                         m \in 1..Len(bracket.upper[r]) \cap 1..2} :
                     r \in 1..Len(bracket.upper)}
         \cup {<<"lower", r - 1, 0>> : r \in 1..Len(bracket.lower)}
         \cup {<<"upper", Len(bracket.upper), 0>>}
         \cup {<<"upper", -1, 0>>, <<"lower", -1, -1>>}

SwissScores ==
    {<<Num(3), Num(1), Num(2), Num(0)>>, <<Num(1), Num(2), Num(2), Num(4)>>}

\* the ids of the first and the last live match
SwissIds ==
    IF bracket.kind = "swiss"
    THEN {bracket.matches[1].id, bracket.matches[Len(bracket.matches)].id}
    ELSE {"SWISS-R1-M1"}

-----------------------------------------------------------------------------
(* Specifications *)

\* double-elimination runs: one tournament is started and its matches are
\* resolved
StartDE ==
    /\ nreq < MaxReqDE
    /\ bracket.kind = "none"
    /\ \E n \in 1..MaxPlayers : Start("double_elimination", n, "desc")

ResolveDE ==
    /\ nreq < MaxReqDE
    /\ \E t \in QuadTargets, sc \in QuadScores :
           UpdateMatchQuad(t[1], t[2], t[3], sc)

NextDE == StartDE \/ ResolveDE

SpecDE == InitFresh /\ [][NextDE]_vars

\* a tournament played through: a bracket of full quads is started and its
\* existing matches are resolved with numeric scores
PlaySizes == {4, 8}

PlayScores ==
    {<<Num(70), Num(100), Num(0), Num(0)>>,
     <<Num(100), Num(100), Num(70), Num(100)>>,
     <<Num(70), Num(69), Num(100), Num(0)>>}

PlayTargets ==
    IF bracket.kind # "de" THEN {}
    ELSE UNION {{<<side, r - 1, m - 1>> :
                    m \in 1..Len(RoundsOf(bracket, side)[r])} :
                <<side, r>> \in
                    {<<sd, k>> \in Sides \X (1..MaxPlayers) :
                        k <= Len(RoundsOf(bracket, sd))}}

StartPlay ==
    /\ nreq < MaxReqPlay
    /\ bracket.kind = "none"
    /\ \E n \in PlaySizes : Start("double_elimination", n, "desc")

ResolvePlay ==
    /\ nreq < MaxReqPlay
    /\ \E t \in PlayTargets, sc \in PlayScores :
           UpdateMatchQuad(t[1], t[2], t[3], sc)

NextPlay == StartPlay \/ ResolvePlay

SpecPlay == InitFresh /\ [][NextPlay]_vars

\* Swiss runs: one 16-entrant tournament is started, scored, advanced and
\* rolled back
StartSwiss ==
    /\ nreq < MaxReqSwiss
    /\ bracket.kind = "none"
    /\ Start("swiss", SwissSize, "desc")

ScoreSwiss ==
    /\ nreq < MaxReqSwiss
    /\ \E id \in SwissIds, sc \in SwissScores : UpdateMatchSwiss(id, sc)

NextSwiss == StartSwiss \/ ScoreSwiss \/ AdvanceSwiss \/ GoBackSwiss

SpecSwiss == InitFresh /\ [][NextSwiss]_vars

\* Swiss scoring runs: one 16-entrant tournament is started and its round-1
\* matches are scored
SwissScoreIds ==
    {"nope"} \cup (IF bracket.kind = "swiss"
                   THEN {bracket.matches[i].id : i \in DOMAIN bracket.matches}
                   ELSE {})

StartScoring ==
    /\ bracket.kind = "none"
    /\ Start("swiss", SwissSize, "asc")

ScoreAny ==
    /\ nreq < MaxScores + 1
    /\ \E id \in SwissScoreIds, sc \in SwissScores : UpdateMatchSwiss(id, sc)

NextScore == StartScoring \/ ScoreAny

SpecScore == InitFresh /\ [][NextScore]_vars

\* mixed runs: any endpoint in any order, from any initial state
AllSizes == {0, 3, SwissSize}

StartAny ==
    /\ nreq < MaxReqAll
    /\ \E fmt \in Formats, n \in AllSizes : Start(fmt, n, "asc")

ResolveAny ==
    /\ nreq < MaxReqAll
    /\ \E t \in {<<"upper", 0, 0>>, <<"grand_final", 0, 0>>} :
           UpdateMatchQuad(t[1], t[2], t[3],
                           <<Num(70), Num(100), Num(0), Num(0)>>)

ScoreFirst ==
    /\ nreq < MaxReqAll
    /\ UpdateMatchSwiss("SWISS-R1-M1", <<Num(3), Num(1), Num(2), Num(0)>>)

ResetAny ==
    /\ nreq < MaxReqAll
    /\ Reset

ConfigAny ==
    /\ nreq < MaxReqAll
    /\ UpdateConfig(LoadedConfig.points_to_advance,
                    LoadedConfig.points_for_finals)

NextAll ==
    \/ StartAny \/ ResolveAny \/ ScoreFirst \/ ResetAny \/ ConfigAny
    \/ AdvanceSwiss \/ GoBackSwiss

SpecAll == Init /\ [][NextAll]_vars

-----------------------------------------------------------------------------
(* The server handles each request in a thread of its own (app.run in       *)
(* start_flask) and the handlers take no lock, so a get_status may run       *)
(* between any two statements of an update_match.  The Swiss branch of       *)
(* update_match is taken statement by statement here.                        *)

Rest == <<players, bracket_type, is_started, config, aliased, snapAt>>

\* match_to_update = next(m for m in bracket['matches'] if m['id'] == match_id)
BeginSwissUpdate(match_id, scores) ==
    /\ pending = NoPending
    /\ bracket.kind = "swiss"
    /\ \E i \in 1..Len(bracket.matches) :
           /\ bracket.matches[i].id = match_id
           /\ \A j \in 1..(i - 1) : bracket.matches[j].id # match_id
           /\ pending' = [op |-> "update_match", match_id |-> match_id,
                          scores |-> scores, i |-> i, pre |-> bracket,
                          phase |-> IF bracket.matches[i].players = <<>>
                                    THEN "sort" ELSE "score",
                          k |-> 1]
    /\ UNCHANGED <<bracket, resp, lastReq, repeated, prevOp, prevBracket,
                   nreq, seen, seenAt>>
    /\ UNCHANGED Rest

\* one turn of the loop: player['score'] = scores[i] if i < len(scores)
StepScore ==
    /\ pending.op = "update_match"
    /\ pending.phase = "score"
    /\ LET i == pending.i
           k == pending.k
       IN  /\ bracket' = IF k <= Len(pending.scores)
                         THEN [bracket EXCEPT !.matches[i].players[k].score =
                                                  pending.scores[k].val]
                         ELSE bracket
           /\ pending' = IF k < Len(bracket.matches[i].players)
                         THEN [pending EXCEPT !.k = k + 1]
                         ELSE [pending EXCEPT !.phase = "sort", !.k = 1]
    /\ UNCHANGED <<resp, lastReq, repeated, prevOp, prevBracket, nreq, seen,
                   seenAt>>
    /\ UNCHANGED Rest

\* match_to_update['players'].sort(...)
StepSort ==
    /\ pending.op = "update_match"
    /\ pending.phase = "sort"
    /\ bracket' = [bracket EXCEPT !.matches[pending.i].players = SortSwiss(@)]
    /\ pending' = [pending EXCEPT !.phase = "mark", !.k = 1]
    /\ UNCHANGED <<resp, lastReq, repeated, prevOp, prevBracket, nreq, seen,
                   seenAt>>
    /\ UNCHANGED Rest

\* one turn of the loop: player['is_winner'] = (i < 2); after the last turn
\* the handler saves and returns the state
StepMark ==
    /\ pending.op = "update_match"
    /\ pending.phase = "mark"
    /\ LET i == pending.i
           k == pending.k
           n == Len(bracket.matches[i].players)
           req == [op |-> "update_match", bracket_type |-> "swiss",
                   match_id |-> pending.match_id, scores |-> pending.scores]
       IN  /\ bracket' = IF k <= n
                         THEN [bracket EXCEPT
                                  !.matches[i].players[k].is_winner = (k <= 2)]
                         ELSE bracket
           /\ IF k < n
              THEN /\ pending' = [pending EXCEPT !.k = k + 1]
                   /\ UNCHANGED <<resp, lastReq, repeated, prevOp,
                                  prevBracket, nreq>>
              ELSE /\ pending' = NoPending
                   /\ resp' = 200
                   /\ lastReq' = req
                   /\ repeated' = (req = lastReq)
                   /\ prevOp' = lastReq.op
                   /\ prevBracket' = pending.pre
                   /\ nreq' = nreq + 1
    /\ UNCHANGED <<seen, seenAt>>
    /\ UNCHANGED Rest

\* GET /api/status, in a thread of its own
GetStatus ==
    /\ seen' = bracket
    /\ seenAt' = pending
    /\ UNCHANGED <<bracket, resp, lastReq, repeated, prevOp, prevBracket,
                   nreq, pending>>
    /\ UNCHANGED Rest

\* runs with reads: one 16-entrant Swiss tournament is started and scored
\* while the state is read
StartRead ==
    /\ nreq < MaxReqRead
    /\ bracket.kind = "none"
    /\ Start("swiss", SwissSize, "desc")

BeginRead ==
    /\ nreq < MaxReqRead
    /\ \E id \in SwissIds, sc \in SwissScores : BeginSwissUpdate(id, sc)

NextRead ==
    StartRead \/ BeginRead \/ StepScore \/ StepSort \/ StepMark \/ GetStatus

SpecRead == InitFresh /\ [][NextRead]_vars

Spec == SpecAll

-----------------------------------------------------------------------------
(* Vocabulary of the claims *)

\* the last request was update_match in the quad format
LastIsQuad == lastReq.op = "update_match" /\ lastReq.bracket_type \in Sides

\* the last request was update_match in the Swiss format
LastIsSwissUpdate ==
    lastReq.op = "update_match" /\ lastReq.bracket_type = "swiss"

\* every reported score is a number
WellFormed(scores) == \A i \in DOMAIN scores : scores[i].kind = "int"

\* the match of bracket b that the last quad request names
NamedMatch(b) ==
    MatchAt(b, lastReq.bracket_type,
            QuadRoundPos(b, lastReq.bracket_type, lastReq.round_index),
            QuadMatchPos(b, lastReq.bracket_type, lastReq.round_index,
                         lastReq.match_index))

LastNamesMatch(b) ==
    QuadLookupOk(b, lastReq.bracket_type, lastReq.round_index,
                 lastReq.match_index)

\* the non-final matches of b, by side and Python indexes
SourceMatches(b) ==
    UNION {{<<side, r - 1, m - 1>> : m \in 1..Len(RoundsOf(b, side)[r])} :
              <<side, r>> \in {<<"upper", u>> : u \in 1..Len(b.upper)}
                          \cup {<<"lower", l>> : l \in 1..Len(b.lower)}}

\* the destinations the router computes for source match src
DestsOf(b, src) ==
    IF src[1] = "upper"
    THEN {UpperWinnerDest(b, src[2], src[3]), UpperLoserDest(b, src[2], src[3])}
    ELSE {LowerWinnerDest(b, src[2], src[3])}

\* the slots (side, round, match, slot) the router writes for src
SlotsOf(b, src) ==
    UNION {{<<d.side, DestRoundPos(b, d), DestMatchPos(b, d), d.slot + k>> :
               k \in {0, 1}} :
           d \in {e \in DestsOf(b, src) :
                     e.side # "none" /\ DestMatchExists(b, e)}}

\* matches with every score set to 0
Zeroed(ms) ==
    [i \in DOMAIN ms |->
        [ms[i] EXCEPT !.players =
            [j \in DOMAIN ms[i].players |->
                [ms[i].players[j] EXCEPT !.score = 0]]]]

-----------------------------------------------------------------------------
(* Claims *)

\* C1: in every generated double-elimination bracket no two distinct source
\* matches are routed to the same destination slot (side, round, match,
\* slot).
C1_NoSharedDestination ==
    bracket.kind = "de" =>
        \A s1, s2 \in SourceMatches(bracket) :
            s1 # s2 => SlotsOf(bracket, s1) \cap SlotsOf(bracket, s2) = {}

\* C2: completing a non-final match (a well-formed report under which two
\* entrants qualify) routes without addressing a missing round, match, slot,
\* winner or loser, and leaves the two winners in the destination slots.
C2_RoutingTotal ==
    (/\ LastIsQuad
     /\ lastReq.bracket_type # "grand_final"
     /\ lastReq.round_index >= 0
     /\ lastReq.match_index >= 0
     /\ WellFormed(lastReq.scores)
     /\ LastNamesMatch(bracket)
     /\ NamedMatch(bracket).is_complete)
    => /\ resp = 200
       /\ LET d == IF lastReq.bracket_type = "upper"
                   THEN UpperWinnerDest(bracket, lastReq.round_index,
                                        lastReq.match_index)
                   ELSE LowerWinnerDest(bracket, lastReq.round_index,
                                        lastReq.match_index)
              dm == MatchAt(bracket, d.side, DestRoundPos(bracket, d),
                            DestMatchPos(bracket, d))
          IN  /\ DestMatchExists(bracket, d)
              /\ d.slot + 2 <= Len(dm.players)
              /\ <<dm.players[d.slot + 1].id, dm.players[d.slot + 2].id>>
                     = NamedMatch(bracket).winners

\* C3: a quad update_match that ends in an error leaves the bracket exactly
\* as it was before the call.
C3_ErrorLeavesBracket ==
    (LastIsQuad /\ resp # 200) => bracket = prevBracket

\* C4: resolving the same quad match twice in a row with the identical score
\* list gives, after the second call, the same is_complete and the same
\* winners in the same order as after the first call.
C4_ResolveIdempotent ==
    (LastIsQuad /\ repeated /\ LastNamesMatch(bracket))
    => /\ NamedMatch(bracket).is_complete = NamedMatch(prevBracket).is_complete
       /\ NamedMatch(bracket).winners = NamedMatch(prevBracket).winners

\* C5: a Swiss update_match repeated with the identical score list leaves
\* every entrant of the match with the same score and the same winner flag
\* as after the first call.
C5_SwissUpdateIdempotent ==
    (LastIsSwissUpdate /\ repeated /\ bracket.kind = "swiss")
    => \A i \in DOMAIN bracket.matches :
           bracket.matches[i].id = lastReq.match_id
           => Range(bracket.matches[i].players)
                  = Range(prevBracket.matches[i].players)

\* C6: from any Swiss state, a successful advance followed at once
\* by go_back gives the round and the matches from before the advance, with
\* every score 0.
C6_RollbackInverse ==
    [][(/\ lastReq.op = "advance_swiss_stage"
        /\ resp = 200
        /\ lastReq'.op = "go_back_swiss")
       => /\ resp' = 200
          /\ bracket'.round = prevBracket.round
          /\ bracket'.matches = Zeroed(prevBracket.matches)]_vars

\* C6 restricted to the rounds 1..4 (holds): the rollback inverts every
\* advance that makes a transition, so C6 fails only where advance is
\* accepted at round 5.
C6_RollbackInverseBelow5 ==
    [][(/\ lastReq.op = "advance_swiss_stage"
        /\ resp = 200
        /\ prevBracket.round <= 4
        /\ lastReq'.op = "go_back_swiss")
       => /\ resp' = 200
          /\ bracket'.round = prevBracket.round
          /\ bracket'.matches = Zeroed(prevBracket.matches)]_vars

\* a go_back directly after an advance has restored a round that had been
\* scored (winner flags set)
C6_Witness ==
    /\ lastReq.op = "go_back_swiss"
    /\ prevOp = "advance_swiss_stage"
    /\ resp = 200
    /\ bracket.round <= 4
    /\ \E i \in DOMAIN bracket.matches :
           \E j \in DOMAIN bracket.matches[i].players :
               bracket.matches[i].players[j].is_winner

\* C7: every snapshot in the Swiss history equals the live matches as they
\* were when the advance out of that round was called, whatever update_match,
\* advance and go_back calls followed.
C7_SnapshotsIndependent ==
    bracket.kind = "swiss" =>
        /\ DOMAIN bracket.history = DOMAIN snapAt
        /\ \A k \in DOMAIN bracket.history : bracket.history[k] = snapAt[k]

\* a score report has changed the live matches while a snapshot is stored
C7_Witness ==
    /\ bracket.kind = "swiss"
    /\ LastIsSwissUpdate
    /\ bracket # prevBracket
    /\ (bracket.round - 1) \in DOMAIN bracket.history

\* C8: when no bracket exists or the live bracket is not a Swiss bracket,
\* advance_swiss_stage answers with its designated error response (400) and
\* leaves the bracket untouched.
C8_AdvanceRejected ==
    (lastReq.op = "advance_swiss_stage" /\ prevBracket.kind # "swiss")
    => (resp = 400 /\ bracket = prevBracket)

\* C9: the round of a Swiss bracket is always within 1..4, so advancing out
\* of round 4 ends the progression.
C9_RoundWithin4 == bracket.kind = "swiss" => bracket.round \in 1..4

\* C9 with the bound the code keeps (holds): the round is within 1..5.
C9_RoundWithin5 == bracket.kind = "swiss" => bracket.round \in 1..5

\* advance was called at round 5 and the round is still 5
C9_Witness ==
    /\ bracket.kind = "swiss"
    /\ lastReq.op = "advance_swiss_stage"
    /\ prevBracket.kind = "swiss"
    /\ prevBracket.round = 5
    /\ bracket.round = 5

\* C10: a Swiss bracket always has exactly four matches of exactly 4 slots.
C10_FourQuads ==
    bracket.kind = "swiss" =>
        /\ Len(bracket.matches) = 4
        /\ \A i \in DOMAIN bracket.matches :
               Len(bracket.matches[i].players) = 4

\* the last request generated a double-elimination bracket
JustGeneratedDE == lastReq.op = "start" /\ bracket.kind = "de"

\* the ids held by the slots of round rp of the upper bracket, match by match
IdsOfRound(b, rp) ==
    [i \in 1..Len(b.upper[rp]) |->
        [j \in 1..Len(b.upper[rp][i].players) |-> b.upper[rp][i].players[j].id]]

\* C11: a bracket generated from N >= 1 uniquely seeded entrants has an Upper
\* Round 1 that holds exactly N slots, every entrant of the roster in exactly
\* one slot of exactly one match, and no BYE.
C11_EveryEntrantPlacedOnce ==
    JustGeneratedDE =>
        /\ Len(bracket.upper) >= 1
        /\ LET ids == IdsOfRound(bracket, 1)
               slots == {<<i, j>> \in (1..Len(ids)) \X (1..4) :
                            j <= Len(ids[i])}
           IN  /\ Cardinality(slots) = Len(players)
               /\ \A p \in Range(players) :
                      Cardinality({sl \in slots : ids[sl[1]][sl[2]] = p}) = 1
               /\ \A sl \in slots : ids[sl[1]][sl[2]] # BYE

\* the entrant at 0-based position k of the list padded with BYE
PaddedAt(sorted, k) == IF k < Len(sorted) THEN sorted[k + 1] ELSE BYE

\* the placement C12 describes: match i holds positions i, 2m-1-i, 2m+i and
\* 4m-1-i of the padded list, BYE positions dropped
Serpentine(sorted) ==
    LET m == Ceil(Len(sorted), 4)
        NotBye(p) == p # BYE
    IN  [j \in 1..m |->
            SelectSeq(<<PaddedAt(sorted, j - 1),
                        PaddedAt(sorted, 2 * m - 1 - (j - 1)),
                        PaddedAt(sorted, 2 * m + (j - 1)),
                        PaddedAt(sorted, 4 * m - 1 - (j - 1))>>, NotBye)]

Reported(match, j) ==
    IF j <= Len(lastReq.scores) THEN lastReq.scores[j].val
    ELSE match.players[j].score

\* the slots of match whose real entrant reaches the threshold of the side
\* under the scores of the last request
Qualifiers(match) ==
    {j \in 1..Len(match.players) :
        /\ match.players[j].id \notin {TBD, BYE}
        /\ Reported(match, j) >= (IF lastReq.bracket_type = "grand_final"
                                  THEN config.points_for_finals
                                  ELSE config.points_to_advance)}

\* the last request resolved an existing quad match with numeric scores
LastResolved ==
    /\ LastIsQuad
    /\ LastNamesMatch(prevBracket)
    /\ WellFormed(lastReq.scores)

\* C13: after a quad resolve_match, one qualifying real entrant leaves the
\* match incomplete with no winners; exactly two complete it with those two
\* as winners whatever the other scores; more than two complete it with two
\* winners that no other qualifier outscores.
C13_Qualification ==
    LastResolved =>
        LET pre == NamedMatch(prevBracket)
            post == NamedMatch(bracket)
            Q == Qualifiers(pre)
        IN  /\ Cardinality(Q) = 1
               => (~post.is_complete /\ post.winners = <<>>)
            /\ Cardinality(Q) = 2
               => /\ post.is_complete
                  /\ Len(post.winners) = 2
                  /\ Range(post.winners) = {pre.players[j].id : j \in Q}
            /\ Cardinality(Q) > 2
               => /\ post.is_complete
                  /\ \E w1, w2 \in Q :
                        /\ w1 # w2
                        /\ post.winners
                               = <<pre.players[w1].id, pre.players[w2].id>>
                        /\ Reported(pre, w1) >= Reported(pre, w2)
                        /\ \A j \in Q \ {w1, w2} :
                               Reported(pre, j) <= Reported(pre, w2)

\* exactly two entrants qualified while a third one scored below the
\* threshold, and the match was completed
C13_Witness ==
    /\ LastResolved
    /\ Cardinality(Qualifiers(NamedMatch(prevBracket))) = 2
    /\ \E j \in 1..Len(NamedMatch(prevBracket).players) :
           /\ j \notin Qualifiers(NamedMatch(prevBracket))
           /\ Reported(NamedMatch(prevBracket), j) > 0
    /\ NamedMatch(bracket).is_complete

\* the number of slots of ps that come before slot p: a higher score, or the
\* same score and a lower seed number
Ahead(ps, p) ==
    Cardinality({k \in 1..Len(ps) :
                    \/ ps[k].score > p.score
                    \/ ps[k].score = p.score /\ ps[k].seed < p.seed})

\* the slots of ps are in order of score descending, then seed ascending,
\* and exactly the first two are flagged
Finalized(ps) ==
    \A j \in 1..Len(ps) :
        /\ Ahead(ps, ps[j]) = j - 1
        /\ ps[j].is_winner = (j <= 2)

\* the live slot that holds the entrant of seed sd
LiveSlots(b, sd) ==
    {b.matches[i].players[j] :
        <<i, j>> \in {<<i, j>> \in (1..Len(b.matches)) \X (1..4) :
                        /\ j <= Len(b.matches[i].players)
                        /\ b.matches[i].players[j].seed = sd}}

\* C14: after a Swiss update_match the slots of the updated match are in
\* order of score descending, ties by ascending seed, with exactly the first
\* two flagged is_winner (seeds 1..4 scored 3,1,2,0 flag seeds 1 and 3);
\* after an advance out of rounds 1..4 every entrant still in the bracket is
\* flagged exactly when it was among the first two of its match in that
\* order, and the round-2 matches keep the finalized order of round 1.
C14_WinnerFinalization ==
    /\ (LastIsSwissUpdate /\ resp = 200 /\ bracket.kind = "swiss")
       => \A i \in 1..Len(bracket.matches) :
              bracket.matches[i].id = lastReq.match_id
              => /\ Finalized(bracket.matches[i].players)
                 /\ (/\ lastReq.scores = <<Num(3), Num(1), Num(2), Num(0)>>
                     /\ Len(prevBracket.matches[i].players) = 4
                     /\ [j \in 1..4 |-> prevBracket.matches[i].players[j].seed]
                            = <<1, 2, 3, 4>>)
                    => {p.seed : p \in {q \in Range(bracket.matches[i].players)
                                           : q.is_winner}} = {1, 3}
    /\ (/\ lastReq.op = "advance_swiss_stage"
        /\ resp = 200
        /\ prevBracket.round \in 1..4)
       => /\ \A i \in 1..Len(prevBracket.matches) :
                 \A p \in Range(prevBracket.matches[i].players) :
                     \A q \in LiveSlots(bracket, p.seed) :
                         q.is_winner
                             = (Ahead(prevBracket.matches[i].players, p) < 2)
          /\ prevBracket.round = 1
             => \A i \in 1..4 :
                    \A j \in 1..4 :
                        Ahead(prevBracket.matches[i].players,
                              CHOOSE p \in Range(prevBracket.matches[i].players)
                                  : p.seed = bracket.matches[i].players[j].seed)
                            = j - 1

\* an update has reordered a match on a tie of scores, the lower seed number
\* first
C14_Witness ==
    /\ LastIsSwissUpdate
    /\ resp = 200
    /\ bracket.kind = "swiss"
    /\ \E i \in 1..Len(bracket.matches) :
           /\ bracket.matches[i].id = lastReq.match_id
           /\ Len(bracket.matches[i].players) = 4
           /\ bracket.matches[i].players # prevBracket.matches[i].players
           /\ \E j \in 1..3 :
                  bracket.matches[i].players[j].score
                      = bracket.matches[i].players[j + 1].score

\* the rollback has nothing to restore in Swiss bracket b
NothingToRestore(b) ==
    b.round <= 1 \/ (b.round - 1) \notin DOMAIN b.history

\* C15: go_back_swiss called on a Swiss bracket at round <= 1, or without a
\* snapshot for round - 1, answers with an error and leaves round, stage,
\* matches and history unchanged.  Every reachable bracket of round > 1 holds
\* the snapshot for round - 1, so the second case is also put to the handler
\* on the live bracket with that snapshot taken away.
C15_RollbackPreconditions ==
    /\ (/\ lastReq.op = "go_back_swiss"
        /\ prevBracket.kind = "swiss"
        /\ NothingToRestore(prevBracket))
       => (resp = 400 /\ bracket = prevBracket)
    /\ (bracket.kind = "swiss" /\ bracket.round > 1)
       => LET bare == [bracket EXCEPT
                          !.history = DropKey(@, bracket.round - 1)]
              out == go_back_swiss(bare, bracket_type)
          IN  out.status = 400 /\ out.b = bare

\* go_back_swiss was called at round 1 of a scored bracket
C15_Witness ==
    /\ lastReq.op = "go_back_swiss"
    /\ prevBracket.kind = "swiss"
    /\ prevBracket.round = 1
    /\ \E i \in 1..Len(prevBracket.matches) :
           prevBracket.matches[i].players[1].score > 0

\* the indexes of the last quad request are within 0..length-1 of bracket b
IndexesInRange(b) ==
    IF lastReq.bracket_type = "grand_final"
    THEN lastReq.match_index \in 0..(Len(b.grand_final) - 1)
    ELSE LET rounds == RoundsOf(b, lastReq.bracket_type)
         IN  /\ lastReq.round_index \in 0..(Len(rounds) - 1)
             /\ lastReq.match_index
                    \in 0..(Len(rounds[lastReq.round_index + 1]) - 1)

\* C16: a quad resolve_match whose round_index or match_index is outside
\* 0..length-1 of the named side, negative values included, answers with the
\* handler's error response and changes no match.
C16_BadIndexRejected ==
    (LastIsQuad /\ prevBracket.kind = "de" /\ ~IndexesInRange(prevBracket))
    => (resp = 400 /\ bracket = prevBracket)

\* C17: a Swiss update_match whose match_id is the id of no live match does
\* not answer with success, and changes nothing.
C17_UnknownMatchRejected ==
    (/\ LastIsSwissUpdate
     /\ prevBracket.kind = "swiss"
     /\ \A i \in 1..Len(prevBracket.matches) :
            prevBracket.matches[i].id # lastReq.match_id)
    => (resp # 200 /\ bracket = prevBracket)

\* the slot scores of a match, in slot order
ScoresOf(match) ==
    [j \in 1..Len(match.players) |-> match.players[j].score]

\* C18: a quad resolve_match whose score list has a non-numeric entry answers
\* with the handler's error response and changes no slot score of the match,
\* the slots before the malformed entry included.
C18_BadScoreRejected ==
    (/\ LastIsQuad
     /\ prevBracket.kind = "de"
     /\ IndexesInRange(prevBracket)
     /\ ~WellFormed(lastReq.scores))
    => /\ resp = 400
       /\ ScoresOf(NamedMatch(bracket)) = ScoresOf(NamedMatch(prevBracket))

\* the last request was a start in the Swiss format
LastIsSwissStart == lastReq.op = "start" /\ lastReq.bracket_type = "swiss"

\* the Round-1 bracket C19 describes for seeds 1..16
SwissRound1 ==
    [kind |-> "swiss", stage |-> "seeding", round |-> 1, history |-> <<>>,
     matches |->
        [i \in 1..4 |->
            [id |-> <<"SWISS-R1-M1", "SWISS-R1-M2",
                      "SWISS-R1-M3", "SWISS-R1-M4">>[i],
             players |-> [j \in 1..4 |->
                             [seed |-> 4 * (i - 1) + j, score |-> 0,
                              is_winner |-> FALSE]]]]]

\* C19: a Swiss start with a roster of other than 16 entrants is refused and
\* produces no bracket (the generator returns none, the live bracket is the
\* one from before); with 16 entrants seeded 1..16 it produces four Round-1
\* matches holding seeds 1-4, 5-8, 9-12 and 13-16, stage seeding, round 1,
\* empty history and all scores 0.
C19_SwissGeneration ==
    LastIsSwissStart =>
        IF Len(lastReq.players) = 16
        THEN /\ resp = 200
             /\ bracket = SwissRound1
             /\ DOMAIN bracket.history = {}
        ELSE /\ resp = 400
             /\ generate_swiss_bracket(lastReq.players) = NoBracket
             /\ bracket = prevBracket

\* a Swiss bracket was generated from a roster of 16
C19_Witness ==
    /\ LastIsSwissStart
    /\ Len(lastReq.players) = 16
    /\ bracket.kind = "swiss"
    /\ is_started

\* C20: a get_status that runs while an update_match is being handled reads
\* either the bracket from before the request or the bracket the request
\* leaves, never a match with some scores written or its winners not yet
\* recomputed.
C20_ReadsAtomic ==
    seenAt # NoPending
    => \/ seen = seenAt.pre
       \/ seen = update_match_swiss(seenAt.pre, seenAt.match_id,
                                    seenAt.scores).b

\* the last request resolved, with in-range indexes and numeric scores, a
\* match of the given side that is complete after the call
Completed(side) ==
    /\ LastIsQuad
    /\ lastReq.bracket_type = side
    /\ prevBracket.kind = "de"
    /\ IndexesInRange(prevBracket)
    /\ WellFormed(lastReq.scores)
    /\ NamedMatch(bracket).is_complete

\* the matches of rounds (a list of rounds) with slots s and s+1 (0-based) of
\* the match at 1-based (rp, mp) holding the entrants ids, score 0
PutPair(rounds, rp, mp, s, ids) ==
    [rounds EXCEPT ![rp][mp].players =
        [j \in 1..Len(@) |->
            IF j = s + 1 THEN [id |-> ids[1], score |-> 0]
            ELSE IF j = s + 2 THEN [id |-> ids[2], score |-> 0]
            ELSE @[j]]]

\* rounds with the match the last request names as it is after the call
WithNamed(rounds, side) ==
    IF lastReq.bracket_type # side THEN rounds
    ELSE [rounds EXCEPT ![lastReq.round_index + 1][lastReq.match_index + 1] =
                            NamedMatch(bracket)]

\* C21: when upper round r, match m completes, its two winners are in upper
\* round r+1, match m \div 2, slots (m % 2)*2 and (m % 2)*2 + 1 with score 0,
\* or in grand-final slots 0 and 1 when there is no upper round r+1, and no
\* other upper or grand-final slot has changed.
C21_UpperWinnerRouting ==
    Completed("upper") =>
        LET r == lastReq.round_index
            m == lastReq.match_index
            w == NamedMatch(bracket).winners
            own == WithNamed(prevBracket.upper, "upper")
        IN  IF r + 1 < Len(prevBracket.upper)
            THEN /\ (m % 2) * 2 + 2
                        <= Len(prevBracket.upper[r + 2][m \div 2 + 1].players)
                 /\ bracket.upper
                        = PutPair(own, r + 2, m \div 2 + 1, (m % 2) * 2, w)
                 /\ bracket.grand_final = prevBracket.grand_final
            ELSE /\ bracket.upper = own
                 /\ <<bracket.grand_final>>
                        = PutPair(<<prevBracket.grand_final>>, 1, 1, 0, w)

\* rounds with the entrants ids, score 0, in the slots from s (0-based) on of
\* the match at 1-based (rp, mp)
PutList(rounds, rp, mp, s, ids) ==
    [rounds EXCEPT ![rp][mp].players =
        [j \in 1..Len(@) |->
            IF j - s \in 1..Len(ids) THEN [id |-> ids[j - s], score |-> 0]
            ELSE @[j]]]

\* the real entrants of the resolved match that are not among its winners
LosersOfNamed == Losers(NamedMatch(bracket), Range(NamedMatch(bracket).winners))

\* C22: when upper round r, match m completes, its losers (the real entrants
\* that are not winners) are in lower round L, match m \div 2, slots
\* (m % 2)*2 and (m % 2)*2 + 1, with L = 0 if r = 0 and (r-1)*2 + 1 otherwise;
\* when L is not an existing lower round the call succeeds and no lower slot
\* has changed.
C22_UpperLoserRouting ==
    Completed("upper") =>
        LET r == lastReq.round_index
            m == lastReq.match_index
            L == IF r = 0 THEN 0 ELSE (r - 1) * 2 + 1
        IN  IF L < Len(prevBracket.lower)
            THEN bracket.lower
                    = PutList(prevBracket.lower, L + 1, m \div 2 + 1,
                              (m % 2) * 2, LosersOfNamed)
            ELSE resp = 200 /\ bracket.lower = prevBracket.lower

SlotsOfRound(round) == Concat([i \in 1..Len(round) |-> round[i].players])

\* the shape the claim gives to a generated bracket b
TopologyShape(b) ==
    LET U == Len(b.upper)
        IsPlaceholder(p) == p = [id |-> TBD, score |-> 0]
        AllPlaceholders(slots) ==
            \A j \in 1..Len(slots) : IsPlaceholder(slots[j])
        matches(i) == IF i <= U THEN Len(b.upper[i]) ELSE 1
    IN  /\ \A k \in 2..U :
            /\ Len(SlotsOfRound(b.upper[k])) = 2 * Len(b.upper[k - 1])
            /\ AllPlaceholders(SlotsOfRound(b.upper[k]))
            /\ Len(b.upper[k]) = Ceil(Len(b.upper[k - 1]), 2)
        /\ U >= 1
        /\ Len(b.upper[U]) = 1
        /\ Len(b.lower) = U + 1
        /\ \A i \in 1..Len(b.lower) :
            /\ Len(b.lower[i]) = Ceil(matches(i), 2)
            /\ \A j \in 1..Len(b.lower[i]) :
                /\ Len(b.lower[i][j].players) = 4
                /\ AllPlaceholders(b.lower[i][j].players)
        /\ Len(b.grand_final) = 1
        /\ Len(b.grand_final[1].players) = 4
        /\ AllPlaceholders(b.grand_final[1].players)

\* C24: a bracket generated from any roster has, in each upper round after
\* the first, 2 * (matches of the previous round) placeholder slots in
\* ceil(previous matches / 2) matches; its last upper round has one match; it
\* has one lower round more than upper rounds, lower round i made of
\* ceil(matches_i / 2) matches of 4 placeholder slots (matches_i = 1 past the
\* last upper round); its grand final is one match of 4 placeholder slots.
C24_TopologyShape == JustGeneratedDE => TopologyShape(bracket)

\* the last request was an advance accepted on a Swiss bracket of round r
Advanced(r) ==
    /\ lastReq.op = "advance_swiss_stage"
    /\ resp = 200
    /\ prevBracket.kind = "swiss"
    /\ prevBracket.round = r

\* the seeds of the slots ps, in slot order
SeedsOf(ps) == [j \in 1..Len(ps) |-> ps[j].seed]

\* the seeds of the slots ps, best score first, lower seed first on a tie
SeedsByScore(ps) ==
    [k \in 1..Len(ps) |->
        (CHOOSE p \in Range(ps) : Ahead(ps, p) = k - 1).seed]

\* one list made of each match's seeds by score, in match order
PerMatchOrder(ms) == Concat([i \in 1..Len(ms) |-> SeedsByScore(ms[i].players)])

\* every score of the live matches is 0
AllScoresZero ==
    \A i \in 1..Len(bracket.matches) :
        \A j \in 1..Len(bracket.matches[i].players) :
            bracket.matches[i].players[j].score = 0

\* the live matches are four, holding the slices [0:4], [4:8], [8:12] and
\* [12:16] of the list of seeds
SplitInFour(list) ==
    /\ Len(bracket.matches) = 4
    /\ \A k \in 1..4 :
        SeedsOf(bracket.matches[k].players) = Slice(list, 4 * (k - 1), 4 * k)

\* C25: advancing out of round 1 concatenates, in match order, each match's
\* slots by score descending (seed ascending on ties) and makes the four
\* round-2 matches of the slices [0:4], [4:8], [8:12], [12:16] of that list;
\* afterwards round = 2, stage = seeding and every score is 0.
C25_AdvanceRound1 ==
    Advanced(1) =>
        /\ SplitInFour(PerMatchOrder(prevBracket.matches))
        /\ bracket.round = 2
        /\ bracket.stage = "seeding"
        /\ AllScoresZero

\* C25 for the advances made while the stage is seeding (holds): the stage
\* is the only part of C25 that fails, and only after a rollback from round 3
\* left it at groups.
C25_AdvanceRound1FromSeeding ==
    Advanced(1) /\ prevBracket.stage = "seeding" => C25_AdvanceRound1

\* the live matches are the groups champion, gold, silver, bronze in that order
FourGroups ==
    [i \in 1..Len(bracket.matches) |-> bracket.matches[i].id]
        = <<"champion", "gold", "silver", "bronze">>

\* the slots of all the matches ms, in match order
AllSlots(ms) == Concat([i \in 1..Len(ms) |-> ms[i].players])

\* C26: advancing out of round 2 uses the procedure of round 1 -> 2 (match
\* order, each match's slots by score descending, no re-ordering across
\* matches); champion, gold, silver and bronze are the slices of that list;
\* afterwards stage = groups, round = 3 and every score is 0.
C26_AdvanceRound2 ==
    Advanced(2) =>
        /\ SplitInFour(PerMatchOrder(prevBracket.matches))
        /\ FourGroups
        /\ bracket.stage = "groups"
        /\ bracket.round = 3
        /\ AllScoresZero

\* C26 amended: advancing out of round 2 orders all sixteen slots together by
\* score descending (seed ascending on ties), across matches; champion, gold,
\* silver and bronze are the slices [0:4], [4:8], [8:12], [12:16] of that
\* list; afterwards stage = groups, round = 3 and every score is 0.
C26_AdvanceRound2Reseeded ==
    Advanced(2) =>
        /\ SplitInFour(SeedsByScore(AllSlots(prevBracket.matches)))
        /\ FourGroups
        /\ bracket.stage = "groups"
        /\ bracket.round = 3
        /\ AllScoresZero

\* round 2 was left with scores that put an entrant of a later match ahead
\* of an entrant of an earlier match
C26_Witness ==
    /\ Advanced(2)
    /\ bracket.round = 3
    /\ PerMatchOrder(prevBracket.matches)
            # SeedsByScore(AllSlots(prevBracket.matches))

\* the seeds of group id of the bracket before the last request, best score
\* first, lower seed first on a tie
PrevGroup(id) ==
    SeedsByScore(prevBracket.matches[Group(prevBracket.matches, id)].players)

\* the first two of a finalized group, and the ones after them
Top2(q) == Slice(q, 0, 2)
Bottom2(q) == Slice(q, 2, Len(q))

\* the seeds q in ascending order
SeedAscending(q) ==
    [k \in 1..Len(q) |->
        CHOOSE x \in Range(q) : Cardinality({y \in Range(q) : y < x}) = k - 1]

\* the seeds of the live group id, in slot order
LiveGroup(id) ==
    SeedsOf(bracket.matches[Group(bracket.matches, id)].players)

\* C27: advancing out of round 3 or 4 makes champion' = champion.top2 +
\* gold.top2, silver' = silver.bottom2 + bronze.top2, bronze' =
\* bronze.bottom2 and gold' = champion.bottom2 + silver.top2, the two parts
\* of gold' each re-sorted by seed ascending only when leaving round 3 and
\* kept in score order when leaving round 4; afterwards every score is 0 and
\* the round is one more.
C27_PromotionRelegation ==
    \A r \in {3, 4} :
        Advanced(r) =>
            /\ FourGroups
            /\ LiveGroup("champion")
                    = Top2(PrevGroup("champion")) \o Top2(PrevGroup("gold"))
            /\ LiveGroup("silver")
                    = Bottom2(PrevGroup("silver")) \o Top2(PrevGroup("bronze"))
            /\ LiveGroup("bronze") = Bottom2(PrevGroup("bronze"))
            /\ LiveGroup("gold")
                    = IF r = 3
                      THEN SeedAscending(Bottom2(PrevGroup("champion")))
                               \o SeedAscending(Top2(PrevGroup("silver")))
                      ELSE Bottom2(PrevGroup("champion"))
                               \o Top2(PrevGroup("silver"))
            /\ AllScoresZero
            /\ bracket.round = r + 1

\* round 3 was left with the bottom two of champion out of seed order
C27_Witness ==
    /\ Advanced(3)
    /\ bracket.round = 4
    /\ Bottom2(PrevGroup("champion"))
            # SeedAscending(Bottom2(PrevGroup("champion")))

\* the last request was a rollback accepted on a Swiss bracket
RolledBack ==
    /\ lastReq.op = "go_back_swiss"
    /\ resp = 200
    /\ prevBracket.kind = "swiss"

\* C28: a successful go_back from round r > 1 sets the round to r - 1 and the
\* live matches to the snapshot for round r - 1 with every score 0, removes
\* the snapshot for round r - 1 and leaves every other history entry
\* unchanged.
C28_RollbackEffect ==
    RolledBack =>
        LET r == prevBracket.round
        IN  /\ r > 1
            /\ (r - 1) \in DOMAIN prevBracket.history
            /\ bracket.round = r - 1
            /\ bracket.matches = Zeroed(prevBracket.history[r - 1])
            /\ DOMAIN bracket.history = (DOMAIN prevBracket.history) \ {r - 1}
            /\ \A k \in DOMAIN bracket.history :
                    bracket.history[k] = prevBracket.history[k]

\* a rollback restored a snapshot that held scores and left an older
\* snapshot in the history
C28_Witness ==
    /\ RolledBack
    /\ DOMAIN bracket.history # {}
    /\ prevBracket.history[prevBracket.round - 1]
            # Zeroed(prevBracket.history[prevBracket.round - 1])

\* C29: in every Swiss state reached by advance and go_back, the stage is
\* seeding exactly when the round is at most 2 and groups exactly when the
\* round is at least 3; rolling back from round 3 returns the stage to
\* seeding.
C29_StageFollowsRound ==
    bracket.kind = "swiss" =>
        /\ bracket.stage = "seeding" <=> bracket.round <= 2
        /\ bracket.stage = "groups" <=> bracket.round >= 3

\* C29 without the rollback (holds): the stage follows the round as long as
\* no rollback has crossed from round 3 to round 2.
C29_StageFollowsRoundForward ==
    [][(/\ bracket.kind = "swiss"
        /\ bracket.stage = "seeding" <=> bracket.round <= 2
        /\ bracket'.kind = "swiss"
        /\ lastReq'.op # "go_back_swiss")
       => (bracket'.stage = "seeding" <=> bracket'.round <= 2)]_vars

\* the live positions (match, slot) that hold the entrant of seed sd
LivePositions(b, sd) ==
    {<<i, j>> \in (1..Len(b.matches)) \X (1..4) :
        /\ j <= Len(b.matches[i].players)
        /\ b.matches[i].players[j].seed = sd}

\* C30: in every state reached from a fresh 16-entrant Swiss bracket by
\* update_match, advance and go_back, each of the 16 entrants occupies
\* exactly one slot of the live matches.
C30_EntrantConservation ==
    bracket.kind = "swiss" =>
        \A sd \in 1..SwissSize : Cardinality(LivePositions(bracket, sd)) = 1

\* C30 up to round 3 (holds), and at most one slot per entrant in every
\* round: entrants are lost, never duplicated, and only by the advances out
\* of rounds 3 and 4.
C30_EntrantConservationUpTo3 ==
    bracket.kind = "swiss" =>
        \A sd \in 1..SwissSize :
            /\ Cardinality(LivePositions(bracket, sd)) <= 1
            /\ bracket.round <= 3
                    => Cardinality(LivePositions(bracket, sd)) = 1

\* C31: in every Swiss state reached from generation by advance, update_match
\* and go_back, a bracket of round > 1 holds a snapshot for round - 1, and a
\* go_back called at round > 1 never answers with the missing-snapshot error.
C31_SnapshotForPreviousRound ==
    /\ (bracket.kind = "swiss" /\ bracket.round > 1)
            => (bracket.round - 1) \in DOMAIN bracket.history
    /\ (/\ lastReq.op = "go_back_swiss"
        /\ prevBracket.kind = "swiss"
        /\ prevBracket.round > 1)
            => resp = 200

\* a rollback was accepted and left a bracket that can be rolled back again
C31_Witness ==
    /\ RolledBack
    /\ bracket.round > 1
    /\ (bracket.round - 1) \in DOMAIN bracket.history

\* every match of the double-elimination bracket b
AllMatches(b) ==
    UNION {UNION {Range(RoundsOf(b, side)[r]) :
                     r \in 1..Len(RoundsOf(b, side))} : side \in Sides}

\* the winners of match are two distinct real entrants that occupy its slots
WinnersInMatch(match) ==
    /\ Len(match.winners) = 2
    /\ match.winners[1] # match.winners[2]
    /\ \A k \in 1..2 :
        /\ match.winners[k] # TBD
        /\ match.winners[k] # BYE
        /\ \E j \in 1..Len(match.players) :
                match.players[j].id = match.winners[k]

\* C32: in every double-elimination state a match is complete exactly when
\* its winners list has two entries, and then both winners are distinct real
\* entrants that occupy slots of that match, also after an upstream match was
\* re-resolved and rewrote the slots of this match.
C32_WinnersOccupyMatch ==
    bracket.kind = "de" =>
        \A match \in AllMatches(bracket) :
            /\ match.is_complete <=> Len(match.winners) = 2
            /\ match.is_complete => WinnersInMatch(match)

\* C32 for the match a request has just resolved (holds): the winners of a
\* match are stale only after a later request rewrote its slots.
C32_WinnersOccupyResolvedMatch ==
    (/\ LastIsQuad
     /\ prevBracket.kind = "de"
     /\ IndexesInRange(prevBracket)
     /\ WellFormed(lastReq.scores))
        => /\ NamedMatch(bracket).is_complete
                <=> Len(NamedMatch(bracket).winners) = 2
           /\ NamedMatch(bracket).is_complete
                => WinnersInMatch(NamedMatch(bracket))

\* C33: when a completed quad match is re-resolved with scores under which
\* fewer than 2 entrants qualify, its winners become empty and is_complete
\* false, and every slot of every other match, the destination slots of its
\* former winners and losers included, is unchanged.
C33_CorrectionKeepsRouting ==
    (/\ LastResolved
     /\ NamedMatch(prevBracket).is_complete
     /\ Cardinality(Qualifiers(NamedMatch(prevBracket))) < 2)
        => /\ NamedMatch(bracket).winners = <<>>
           /\ ~NamedMatch(bracket).is_complete
           /\ SetMatch(bracket, lastReq.bracket_type,
                       QuadRoundPos(bracket, lastReq.bracket_type,
                                    lastReq.round_index),
                       QuadMatchPos(bracket, lastReq.bracket_type,
                                    lastReq.round_index, lastReq.match_index),
                       NamedMatch(prevBracket))
                = prevBracket

\* a completed upper match whose winners had been routed was corrected to
\* fewer than two qualifiers
C33_Witness ==
    /\ LastResolved
    /\ lastReq.bracket_type = "upper"
    /\ IndexesInRange(prevBracket)
    /\ NamedMatch(prevBracket).is_complete
    /\ Cardinality(Qualifiers(NamedMatch(prevBracket))) < 2
    /\ resp = 200
    /\ \E match \in AllMatches(bracket) \ {NamedMatch(bracket)} :
        \E j \in 1..Len(match.players) :
            match.players[j].id \in Range(NamedMatch(prevBracket).winners)

\* the stored bracket_type is the format of the live bracket
TypeMatchesBracket ==
    /\ bracket.kind = "de" => bracket_type = "double_elimination"
    /\ bracket.kind = "swiss" => bracket_type = "swiss"

\* C34: a start request that is rejected (Swiss format, roster size other
\* than 16) leaves the stored roster, the stored bracket_type, the bracket and
\* is_started as they were, so the stored bracket_type always matches the
\* format of the live bracket.
C34_RejectedStartUnchanged ==
    /\ [][(lastReq'.op = "start" /\ resp' = 400)
            => /\ players' = players
               /\ bracket_type' = bracket_type
               /\ bracket' = bracket
               /\ is_started' = is_started]_vars
    /\ []TypeMatchesBracket

\* C34 for what a rejected start does keep (holds): the bracket and
\* is_started.
C34_RejectedStartKeepsBracket ==
    [][(lastReq'.op = "start" /\ resp' = 400)
        => (bracket' = bracket /\ is_started' = is_started)]_vars

\* C35: after reset_tournament, whatever preceded it, the tournament state is
\* the default state: no bracket, empty roster, is_started false,
\* bracket_type double_elimination, points_to_advance = 70 and
\* points_for_finals = 100.
C35_ResetRestoresDefaults ==
    lastReq.op = "reset" =>
        /\ bracket = NoBracket
        /\ players = <<>>
        /\ ~is_started
        /\ bracket_type = "double_elimination"
        /\ config.points_to_advance = DefaultPointsToAdvance
        /\ config.points_for_finals = DefaultPointsForFinals

\* C35 for the fields the handler assigns (holds): no bracket, empty roster,
\* is_started false.
C35_ResetClearsTournament ==
    lastReq.op = "reset" =>
        (bracket = NoBracket /\ players = <<>> /\ ~is_started)

====
